---- MODULE Spec2Model ----
(***************************************************************************)
(* Push-notification example: the foreground registrar                     *)
(* (examples/react-app/src/push-notification.js), the registerValidSW gate *)
(* that calls it, the service worker's background-message handler and the  *)
(* Express server (the three listings of README.md).                       *)
(*                                                                         *)
(* Three specifications share the module:                                  *)
(*   Spec        page loads of one origin running the registrar            *)
(*   SpecSW      background-message events in the service worker           *)
(*   SpecServer  GET requests against server.js                            *)
(***************************************************************************)
EXTENDS Naturals, Sequences, FiniteSets

VARIABLES
    storage,        \* localStorage of the origin: key -> value or Null
    pc,             \* per page load: where its registration stands
    permission,     \* per page load: how its requestPermission() ended
    calls,          \* per page load: the SDK / storage / console calls made, in order
    got,            \* per page load: what getToken resolved with (Null: nothing yet)
    writes,         \* per page load: the <<key, value>> pairs it passed to setItem
    result,         \* per page load: state of initializePushNotification's promise
    listener,       \* per page load: an onMessage callback is attached
    gateSaw,        \* per page load: what getItem returned at the gate
    received,       \* per page load: payloads its onMessage callback logged
    swLog,          \* service worker: payloads the background handler logged
    notifications,  \* service worker: the showNotification calls made
    build,          \* server: the files of the build directory
    pending,        \* server: the requests in flight, each waiting for a file-system call
    responses       \* server: the requests answered so far

pageVars   == <<storage, pc, permission, calls, got, writes, result, listener, gateSaw,
                received>>
swVars     == <<swLog, notifications>>
serverVars == <<build, pending, responses>>
vars       == <<storage, pc, permission, calls, got, writes, result, listener, gateSaw,
                received,
                swLog, notifications, build, pending, responses>>

(***************************************************************************)
(* Bounds                                                                  *)
(***************************************************************************)
MaxLoads == 2
MaxMessages == 3
MaxRequests == 2
MaxForeground == 2

Loads == 1..MaxLoads

(***************************************************************************)
(* JavaScript values.  Tokens are the non-empty strings getToken resolves  *)
(* with once permission is granted.                                        *)
(***************************************************************************)
Null      == "<null>"
Undefined == "<undefined>"
Tokens    == {"tokA", "tokB"}

\* localStorage.setItem stores the string form of its argument
ToString(v) ==
    IF v = Null THEN "null" ELSE IF v = Undefined THEN "undefined" ELSE v

\* JavaScript truthiness of what getItem returns (null or a string)
Truthy(v) == v # Null /\ v # ""

TokenKey == "notification-token"
OtherKey == "other-key"
Keys     == {TokenKey, OtherKey}

getItem(store, k) == store[k]

setItem(store, k, v) == [store EXCEPT ![k] = ToString(v)]

(***************************************************************************)
(* The promise of the async function initializePushNotification            *)
(***************************************************************************)
NotCalled == [state |-> "not-called", value |-> Undefined]
Pending   == [state |-> "pending",    value |-> Undefined]

\* return token;
ReturnToken(token) == [state |-> "resolved", value |-> token]

CatchRethrows == [state |-> "rejected", value |-> Undefined]

\* catch (error) { console.log(error); }  -- the function then ends, so the
\* promise resolves with undefined
CatchAndLog == [state |-> "resolved", value |-> Undefined]

\* the calls the catch block adds to a load's trace
Caught(trace) == trace \o <<"console.log(error)">>

GateIgnoresStorage(store) == TRUE

\* if (!localStorage.getItem("notification-token"))
Gate(store) == ~Truthy(getItem(store, TokenKey))

(***************************************************************************)
(* Page loads                                                              *)
(***************************************************************************)
PageInit ==
    /\ storage  = [k \in Keys |-> Null]
    /\ pc       = [l \in Loads |-> "loading"]
    /\ permission = [l \in Loads |-> "not-asked"]
    /\ calls    = [l \in Loads |-> <<>>]
    /\ got      = [l \in Loads |-> Null]
    /\ writes   = [l \in Loads |-> <<>>]
    /\ result   = [l \in Loads |-> NotCalled]
    /\ listener = [l \in Loads |-> FALSE]
    /\ gateSaw  = [l \in Loads |-> Undefined]
    /\ received = [l \in Loads |-> <<>>]

\* navigator.serviceWorker.register(swUrl) rejects: the then-callback never runs
RegistrationFails(l) ==
    /\ pc[l] = "loading"
    /\ pc' = [pc EXCEPT ![l] = "sw-failed"]
    /\ UNCHANGED <<storage, permission, calls, got, writes, result, listener, gateSaw>>
    /\ UNCHANGED <<received, swVars, serverVars>>

\* The then-callback of registerValidSW throws before its gate: the trace ends
\* with the call that threw.
SetupThrows(l) ==
    /\ pc[l] = "loading"
    /\ pc' = [pc EXCEPT ![l] = "setup-failed"]
    /\ \/ \* pushNotification.initializeFirebase() throws
          calls' = [calls EXCEPT ![l] = <<"initializeApp">>]
       \/ \* firebase.messaging().useServiceWorker(registration) throws
          calls' = [calls EXCEPT ![l] = <<"initializeApp", "useServiceWorker">>]
    /\ UNCHANGED <<storage, permission, got, writes, result, listener, gateSaw>>
    /\ UNCHANGED <<received, swVars, serverVars>>

\* localStorage.getItem throws at the gate (storage access blocked): nothing is
\* read and the registrar is not called.
GateThrows(l) ==
    /\ pc[l] = "loading"
    /\ pc' = [pc EXCEPT ![l] = "gate-failed"]
    /\ calls' = [calls EXCEPT ![l] =
                    <<"initializeApp", "useServiceWorker", "getItem">>]
    /\ UNCHANGED <<storage, permission, got, writes, result, listener, gateSaw>>
    /\ UNCHANGED <<received, swVars, serverVars>>

\* The then-callback of registerValidSW with a token stored: the registrar is
\* not called.
RegisteredWithToken(l) ==
    /\ pc[l] = "loading"
    /\ ~Gate(storage)
    /\ pc' = [pc EXCEPT ![l] = "skipped"]
    /\ calls' = [calls EXCEPT ![l] =
                    <<"initializeApp", "useServiceWorker", "getItem">>]
    /\ gateSaw' = [gateSaw EXCEPT ![l] = getItem(storage, TokenKey)]
    /\ UNCHANGED <<storage, permission, got, writes, result, listener>>
    /\ UNCHANGED <<received, swVars, serverVars>>

\* The then-callback of registerValidSW with no token stored, up to the first
\* await of initializePushNotification: firebase.messaging() is obtained and
\* requestPermission() is called in the same turn.
RegisteredWithoutToken(l) ==
    /\ pc[l] = "loading"
    /\ Gate(storage)
    /\ gateSaw' = [gateSaw EXCEPT ![l] = getItem(storage, TokenKey)]
    /\ \/ /\ pc' = [pc EXCEPT ![l] = "await-permission"]
          /\ permission' = [permission EXCEPT ![l] = "asked"]
          /\ calls' = [calls EXCEPT ![l] =
                <<"initializeApp", "useServiceWorker", "getItem",
                  "messaging", "requestPermission">>]
          /\ result' = [result EXCEPT ![l] = Pending]
       \/ \* firebase.messaging() throws
          /\ pc' = [pc EXCEPT ![l] = "failed-messaging"]
          /\ UNCHANGED permission
          /\ calls' = [calls EXCEPT ![l] =
                Caught(<<"initializeApp", "useServiceWorker", "getItem",
                         "messaging">>)]
          /\ result' = [result EXCEPT ![l] = CatchAndLog]
    /\ UNCHANGED <<storage, got, writes, listener>>
    /\ UNCHANGED <<received, swVars, serverVars>>

\* await messaging.requestPermission() resumes: granted, and getToken() is
\* called in the same turn
PermissionGranted(l) ==
    /\ pc[l] = "await-permission"
    /\ pc' = [pc EXCEPT ![l] = "await-token"]
    /\ permission' = [permission EXCEPT ![l] = "granted"]
    /\ calls' = [calls EXCEPT ![l] = @ \o <<"getToken">>]
    /\ UNCHANGED <<storage, got, writes, result, listener, gateSaw>>
    /\ UNCHANGED <<received, swVars, serverVars>>

\* variant: the rejection is swallowed and the function goes on to getToken()
PermissionDeniedIgnored(l) ==
    /\ pc[l] = "await-permission"
    /\ pc' = [pc EXCEPT ![l] = "await-token"]
    /\ permission' = [permission EXCEPT ![l] = "denied"]
    /\ calls' = [calls EXCEPT ![l] = @ \o <<"getToken">>]
    /\ UNCHANGED <<storage, got, writes, result, listener, gateSaw>>
    /\ UNCHANGED <<received, swVars, serverVars>>

\* await messaging.requestPermission() throws: the user denied or dismissed
PermissionDenied(l) ==
    /\ pc[l] = "await-permission"
    /\ pc' = [pc EXCEPT ![l] = "failed-permission"]
    /\ permission' = [permission EXCEPT ![l] = "denied"]
    /\ calls' = [calls EXCEPT ![l] = Caught(@)]
    /\ result' = [result EXCEPT ![l] = CatchAndLog]
    /\ UNCHANGED <<storage, got, writes, listener, gateSaw>>
    /\ UNCHANGED <<received, swVars, serverVars>>

\* variant: the catch block also removes the stored token
TokenFailsClears(l) ==
    /\ pc[l] = "await-token"
    /\ pc' = [pc EXCEPT ![l] = "failed-token"]
    /\ storage' = [storage EXCEPT ![TokenKey] = Null]
    /\ calls' = [calls EXCEPT ![l] = Caught(@)]
    /\ result' = [result EXCEPT ![l] = CatchAndLog]
    /\ UNCHANGED <<permission, got, writes, listener, gateSaw>>
    /\ UNCHANGED <<received, swVars, serverVars>>

\* variant: onMessage is attached outside the try block, failure or not
TokenFailsStillListens(l) ==
    /\ pc[l] = "await-token"
    /\ pc' = [pc EXCEPT ![l] = "failed-token"]
    /\ listener' = [listener EXCEPT ![l] = TRUE]
    /\ calls' = [calls EXCEPT ![l] = Caught(@) \o <<"onMessage">>]
    /\ result' = [result EXCEPT ![l] = CatchAndLog]
    /\ UNCHANGED <<storage, permission, got, writes, gateSaw>>
    /\ UNCHANGED <<received, swVars, serverVars>>

\* await messaging.getToken() throws
TokenFails(l) ==
    /\ pc[l] = "await-token"
    /\ pc' = [pc EXCEPT ![l] = "failed-token"]
    /\ calls' = [calls EXCEPT ![l] = Caught(@)]
    /\ result' = [result EXCEPT ![l] = CatchAndLog]
    /\ UNCHANGED <<storage, permission, got, writes, listener, gateSaw>>
    /\ UNCHANGED <<received, swVars, serverVars>>

StoreKeyMutant == OtherKey

\* the key of localStorage.setItem("notification-token", token)
StoreKey == TokenKey

\* await messaging.getToken() resumes with a token: the rest of the try block
\* runs in one turn
TokenReceived(l, token) ==
    /\ pc[l] = "await-token"
    /\ got' = [got EXCEPT ![l] = token]
    /\ \/ \* every remaining statement succeeds
          /\ pc' = [pc EXCEPT ![l] = "registered"]
          /\ storage' = setItem(storage, StoreKey, token)
          /\ writes' = [writes EXCEPT ![l] = @ \o <<<<StoreKey, ToString(token)>>>>]
          /\ listener' = [listener EXCEPT ![l] = TRUE]
          /\ calls' = [calls EXCEPT ![l] =
                @ \o <<"console.log(token)", "setItem", "onMessage">>]
          /\ result' = [result EXCEPT ![l] = ReturnToken(token)]
       \/ \* localStorage.setItem throws (quota, storage disabled)
          /\ pc' = [pc EXCEPT ![l] = "failed-setItem"]
          /\ calls' = [calls EXCEPT ![l] =
                Caught(@ \o <<"console.log(token)", "setItem">>)]
          /\ result' = [result EXCEPT ![l] = CatchAndLog]
          /\ UNCHANGED <<storage, writes, listener>>
       \/ \* messaging.onMessage throws
          /\ pc' = [pc EXCEPT ![l] = "failed-onMessage"]
          /\ storage' = setItem(storage, StoreKey, token)
          /\ writes' = [writes EXCEPT ![l] = @ \o <<<<StoreKey, ToString(token)>>>>]
          /\ calls' = [calls EXCEPT ![l] =
                Caught(@ \o <<"console.log(token)", "setItem", "onMessage">>)]
          /\ result' = [result EXCEPT ![l] = CatchAndLog]
          /\ UNCHANGED listener
    /\ UNCHANGED <<permission, gateSaw>>
    /\ UNCHANGED <<received, swVars, serverVars>>

\* A payload is the set of <<field, value>> pairs the provider sent; {} is the
\* empty object.
PayloadFields == {<<"title", "Hello">>, <<"body", "World">>, <<"icon", "/custom.png">>}
Payloads == SUBSET PayloadFields

\* the payloads tried on the foreground callback: the empty object and a full one
ForegroundPayloads == { {}, PayloadFields }

RECURSIVE SumLen(_, _)
SumLen(f, S) ==
    IF S = {} THEN 0
    ELSE LET x == CHOOSE y \in S : TRUE IN Len(f[x]) + SumLen(f, S \ {x})

\* The callback given to messaging.onMessage runs for a message that arrives
\* while the page has focus: console.log("Notification received", payload)
ForegroundMessage(l, payload) ==
    /\ listener[l]
    /\ SumLen(received, Loads) < MaxForeground
    /\ received' = [received EXCEPT ![l] = Append(@, payload)]
    /\ calls' = [calls EXCEPT ![l] = Append(@, "console.log(payload)")]
    /\ UNCHANGED <<storage, pc, permission, got, writes, result, listener, gateSaw>>
    /\ UNCHANGED <<swVars, serverVars>>

PageNext ==
    \E l \in Loads :
        \/ RegistrationFails(l)
        \/ SetupThrows(l)
        \/ GateThrows(l)
        \/ RegisteredWithToken(l)
        \/ RegisteredWithoutToken(l)
        \/ PermissionGranted(l)
        \/ PermissionDenied(l)
        \/ TokenFails(l)
        \/ \E token \in Tokens : TokenReceived(l, token)
        \/ \E payload \in ForegroundPayloads : ForegroundMessage(l, payload)

(***************************************************************************)
(* Service worker (sw-template.js): the background-message handler         *)
(***************************************************************************)
Field(payload, name, default) ==
    IF \E f \in payload : f[1] = name
    THEN (CHOOSE f \in payload : f[1] = name)[2]
    ELSE default

\* const notificationTitle = 'Background Message Title';
notificationTitle == "Background Message Title"

NotificationFromPayload(payload) ==
    [title |-> Field(payload, "title", notificationTitle),
     body  |-> Field(payload, "body", "Background Message body."),
     icon  |-> Field(payload, "icon", "/logo192.png")]

\* the title and notificationOptions the handler builds for a payload
BackgroundNotification(payload) ==
    [title |-> notificationTitle,
     body  |-> "Background Message body.",
     icon  |-> "/logo192.png"]

SWInit ==
    /\ swLog = <<>>
    /\ notifications = <<>>

\* messaging.setBackgroundMessageHandler(function(payload) { ... }) is invoked
BackgroundMessage(payload) ==
    /\ Len(swLog) < MaxMessages
    /\ swLog' = Append(swLog, payload)
    /\ notifications' = Append(notifications, BackgroundNotification(payload))
    /\ UNCHANGED <<pageVars, serverVars>>

SWNext == \E payload \in Payloads : BackgroundMessage(payload)

(***************************************************************************)
(* Server (server.js)                                                      *)
(***************************************************************************)
\* A request path: its segments and whether it ends in a slash.
Path(segs, slash) == [segs |-> segs, slash |-> slash]

RootPath      == Path(<<>>, TRUE)
PingPath      == Path(<<"ping">>, FALSE)
IndexFile     == <<"index.html">>

ReqPaths ==
    { RootPath,
      PingPath,
      Path(<<"ping">>, TRUE),
      Path(<<"PING">>, FALSE),
      Path(IndexFile, FALSE),
      Path(<<"some", "route">>, FALSE),
      Path(<<"static">>, FALSE),
      Path(<<"static", "main.js">>, FALSE) }

\* The build directories considered: not built yet, the entry document alone,
\* a create-react-app build, and one whose public folder held a file "ping".
Builds ==
    { {},
      { IndexFile },
      { IndexFile, <<"static", "main.js">> },
      { IndexFile, <<"static", "main.js">>, <<"ping">> } }

Response(status, type, segs) == [status |-> status, type |-> type, segs |-> segs]

FileResponse(file) == Response(200, "file", file)
Pong               == Response(200, "text", <<"pong">>)
NotFound           == Response(404, "text", <<"Cannot GET">>)
\* the default error handler's answer to an ENOENT error that res.sendFile or
\* express.static forwarded with next(err)
EnoentError      == Response(404, "error", <<"ENOENT">>)
\* route result: the handler called res.sendFile, whose lookup is still to come
SendFilePending    == Response(0, "sendFile", <<>>)
Redirect(segs)     == Response(301, "redirect", segs)
\* middleware result: the request goes on to the next handler
PassOn             == Response(0, "next", <<>>)

IsPrefix(s, t) == Len(s) =< Len(t) /\ SubSeq(t, 1, Len(s)) = s

IsDir(files, segs) == \E f \in files : Len(f) > Len(segs) /\ IsPrefix(segs, f)

\* app.use(express.static(path.join(__dirname, 'build')))
ServeStatic(files, path) ==
    IF path.slash
    THEN \* a directory request: its index.html, or fall through
         IF path.segs \o IndexFile \in files
         THEN FileResponse(path.segs \o IndexFile)
         ELSE PassOn
    ELSE IF path.segs \in files THEN FileResponse(path.segs)
    ELSE IF IsDir(files, path.segs) THEN Redirect(path.segs)
    ELSE PassOn

\* Express matches route paths case-insensitively
Lower(seg) == IF seg = "PING" THEN "ping" ELSE seg

\* app.get('/ping', ...): matched with or without a trailing slash
MatchesPing(path) == Len(path.segs) = 1 /\ Lower(path.segs[1]) = "ping"

MatchesEveryPath(path) == TRUE

\* app.get('/', ...)
MatchesRoot(path) == path.segs = <<>>

\* what the stat of res.sendFile(path.join(__dirname, 'build', 'index.html'))
\* finds
SendIndex(files) ==
    IF IndexFile \in files THEN FileResponse(IndexFile) ELSE EnoentError

\* the routes a request reaches when express.static passed it on
Routes(path) ==
    IF MatchesPing(path) THEN Pong
    ELSE IF MatchesRoot(path) THEN SendFilePending
    ELSE NotFound

ServerInit ==
    /\ build = {}
    /\ pending = <<>>
    /\ responses = <<>>

RemoveAt(seq, i) == SubSeq(seq, 1, i - 1) \o SubSeq(seq, i + 1, Len(seq))

\* the record of an answer: files is the build as the lookup that produced the
\* answer saw it
Answered(path, files, response) ==
    [path |-> path, build |-> files, response |-> response]

\* npm run build (re)creates the build directory
Deploy(files) ==
    /\ build # files
    /\ build' = files
    /\ UNCHANGED <<pending, responses>>
    /\ UNCHANGED <<pageVars, swVars>>

\* a request in flight: stage names the file-system call it waits for, file the
\* file a completed stat found (<<>> before that)
InFlight(path, stage, file) == [path |-> path, stage |-> stage, file |-> file]

\* a GET request arrives: express.static starts its file lookup
Get(path) ==
    /\ Len(pending) + Len(responses) < MaxRequests
    /\ pending' = Append(pending, InFlight(path, "static", <<>>))
    /\ UNCHANGED <<build, responses>>
    /\ UNCHANGED <<pageVars, swVars>>

\* the stat of express.static completes: a file is opened in a later turn, a
\* directory is redirected, and a miss passes the request on to the routes,
\* which run in the same turn
StaticLookup(i) ==
    /\ i \in DOMAIN pending
    /\ pending[i].stage = "static"
    /\ LET path == pending[i].path
           found == ServeStatic(build, path)
       IN  IF found.type = "file"
           THEN /\ pending' = [pending EXCEPT ![i] = InFlight(path, "open", found.segs)]
                /\ UNCHANGED responses
           ELSE IF found # PassOn
           THEN /\ responses' = Append(responses, Answered(path, build, found))
                /\ pending' = RemoveAt(pending, i)
           ELSE IF Routes(path) = SendFilePending
           THEN /\ pending' = [pending EXCEPT ![i] = InFlight(path, "sendFile", <<>>)]
                /\ UNCHANGED responses
           ELSE /\ responses' = Append(responses, Answered(path, build, Routes(path)))
                /\ pending' = RemoveAt(pending, i)
    /\ UNCHANGED build
    /\ UNCHANGED <<pageVars, swVars>>

\* the stat of res.sendFile completes: the file is opened in a later turn, a
\* miss is answered by the error handler
SendFileLookup(i) ==
    /\ i \in DOMAIN pending
    /\ pending[i].stage = "sendFile"
    /\ LET path == pending[i].path
           found == SendIndex(build)
       IN  IF found.type = "file"
           THEN /\ pending' = [pending EXCEPT ![i] = InFlight(path, "open", found.segs)]
                /\ UNCHANGED responses
           ELSE /\ responses' = Append(responses, Answered(path, build, found))
                /\ pending' = RemoveAt(pending, i)
    /\ UNCHANGED build
    /\ UNCHANGED <<pageVars, swVars>>

\* the read stream opens the file the stat found: gone by now, the error is
\* forwarded with next(err)
OpenStream(files, file) ==
    IF file \in files THEN FileResponse(file) ELSE EnoentError

\* the read stream of express.static or res.sendFile opens its file
OpenFile(i) ==
    /\ i \in DOMAIN pending
    /\ pending[i].stage = "open"
    /\ responses' = Append(responses,
            Answered(pending[i].path, build, OpenStream(build, pending[i].file)))
    /\ pending' = RemoveAt(pending, i)
    /\ UNCHANGED build
    /\ UNCHANGED <<pageVars, swVars>>

ServerNext ==
    \/ \E files \in Builds : Deploy(files)
    \/ \E path \in ReqPaths : Get(path)
    \/ \E i \in 1..MaxRequests : StaticLookup(i)
    \/ \E i \in 1..MaxRequests : SendFileLookup(i)
    \/ \E i \in 1..MaxRequests : OpenFile(i)

Init == PageInit /\ SWInit /\ ServerInit

Next == PageNext

Spec == Init /\ [][Next]_vars

NextSW == SWNext

SpecSW == Init /\ [][NextSW]_vars

NextServer == ServerNext

SpecServer == Init /\ [][NextServer]_vars

(***************************************************************************)
(* Properties of the registrar (checked under Spec)                        *)
(***************************************************************************)
Has(trace, call) == \E i \in DOMAIN trace : trace[i] = call

\* the load's registerValidSW callback ran and found a token stored
FoundToken(l) == gateSaw[l] # Undefined /\ Truthy(gateSaw[l])

\* a step of the load's initializePushNotification threw
Threw(l) ==
    pc[l] \in {"failed-messaging", "failed-permission", "failed-token",
               "failed-setItem", "failed-onMessage"}

\* requestPermission and getToken of the load both succeeded
PermissionAndToken(l) == permission[l] = "granted" /\ got[l] \in Tokens

\* the load wrote exactly one value, the token it got, under the fixed key, and
\* its promise resolved with that token
StoredAndReturned(l) ==
    /\ writes[l] = << <<"notification-token", got[l]>> >>
    /\ result[l] = [state |-> "resolved", value |-> got[l]]

\* C1 as stated: whenever requestPermission and getToken both succeed, the call
\* writes exactly one value, the token, under "notification-token" and resolves
\* with that token.
C1_Original == \A l \in Loads : PermissionAndToken(l) => StoredAndReturned(l)

\* C1 amended: when requestPermission and getToken both succeed, the call
\* writes nothing but the token under "notification-token": exactly once, or
\* not at all when localStorage.setItem itself throws. The promise resolves with
\* that token when setItem and onMessage both return, and with undefined when
\* either of them throws (onMessage throwing leaves the token stored).
C1_StoresAndReturnsToken ==
    \A l \in Loads :
        PermissionAndToken(l) =>
            IF pc[l] = "failed-setItem"
            THEN /\ writes[l] = <<>>
                 /\ result[l] = [state |-> "resolved", value |-> Undefined]
            ELSE /\ writes[l] = << <<"notification-token", got[l]>> >>
                 /\ IF pc[l] = "failed-onMessage"
                    THEN result[l] = [state |-> "resolved", value |-> Undefined]
                    ELSE result[l] = [state |-> "resolved", value |-> got[l]]

C1_Witness ==
    /\ PermissionAndToken(1) /\ ~Threw(1)
    /\ result[1].value = "tokA"
    /\ pc[2] = "failed-onMessage"
    /\ writes[2] = << <<"notification-token", "tokB">> >>
    /\ storage["notification-token"] = "tokB"

\* C2: when requestPermission fails, the promise resolves (it does not reject),
\* getToken is never called and the call writes nothing to local storage.
C2_DeniedPermission ==
    \A l \in Loads :
        permission[l] = "denied" =>
            /\ result[l].state = "resolved"
            /\ ~Has(calls[l], "getToken")
            /\ writes[l] = <<>>
            /\ got[l] = Null

C2_Witness ==
    /\ permission[1] = "denied"
    /\ permission[2] = "granted"
    /\ storage["notification-token"] = "tokB"

\* C3: an error raised at any step of initializePushNotification is caught: the
\* promise never rejects, and after an error it is resolved with undefined.
C3_ErrorsAreCaught ==
    \A l \in Loads :
        /\ result[l].state # "rejected"
        /\ Threw(l) =>
              /\ result[l] = [state |-> "resolved", value |-> Undefined]
              /\ Has(calls[l], "console.log(error)")

C3_Witness ==
    /\ pc[1] = "failed-onMessage"
    /\ pc[2] = "failed-messaging"

\* C4: an app load whose service-worker registration resolves while a token is
\* stored calls neither requestPermission nor getToken.
C4_GateSkipsRegistration ==
    \A l \in Loads :
        FoundToken(l) =>
            /\ ~Has(calls[l], "requestPermission")
            /\ ~Has(calls[l], "getToken")
            /\ result[l].state = "not-called"

C4_Witness ==
    /\ pc[1] = "registered"
    /\ FoundToken(2)
    /\ gateSaw[2] = got[1]

\* C9 as stated: once a token is stored its value never changes again.
C9_Original ==
    [][Truthy(storage[TokenKey]) => storage'[TokenKey] = storage[TokenKey]]_vars

\* C9 amended: once a token is stored the key is never emptied, and a load that
\* found the token at its gate never writes; the value is replaced only by a
\* load that passed the gate before the store, with the token it fetched itself.
C9_NeverRemoved ==
    [][ /\ Truthy(storage[TokenKey]) =>
              /\ Truthy(storage'[TokenKey])
              /\ storage'[TokenKey] # storage[TokenKey] =>
                    \E l \in Loads :
                        /\ gateSaw[l] = Null
                        /\ got[l] = Null
                        /\ got'[l] = storage'[TokenKey]
        /\ \A l \in Loads : FoundToken(l) => writes'[l] = <<>>
      ]_vars

C9_Witness ==
    /\ writes[1] = << <<TokenKey, "tokA">> >>
    /\ writes[2] = << <<TokenKey, "tokB">> >>
    /\ storage[TokenKey] = "tokA"

RegistrarTrace ==
    <<"initializeApp", "useServiceWorker", "getItem", "messaging",
      "requestPermission", "getToken", "console.log(token)", "setItem",
      "onMessage">>

\* C10: an onMessage callback is attached in a load only after that load asked
\* for permission, fetched a token and stored it, in that order (whatever the
\* callback logs comes after); a load that found a token stored, or whose
\* permission or token request failed, has none, and its callback never runs.
C10_ListenerOnlyAfterRegistration ==
    \A l \in Loads :
        /\ listener[l] =>
              /\ Len(calls[l]) >= Len(RegistrarTrace)
              /\ SubSeq(calls[l], 1, Len(RegistrarTrace)) = RegistrarTrace
              /\ \A i \in DOMAIN calls[l] :
                    i > Len(RegistrarTrace) => calls[l][i] = "console.log(payload)"
              /\ permission[l] = "granted"
              /\ writes[l] = << <<TokenKey, got[l]>> >>
        /\ (FoundToken(l) \/ permission[l] = "denied" \/ pc[l] = "failed-token")
              => ~listener[l]
        /\ ~listener[l] => received[l] = <<>>

C10_Witness ==
    /\ listener[1]
    /\ Len(received[1]) = 2
    /\ FoundToken(2)
    /\ ~listener[2]

(***************************************************************************)
(* Properties of the background-message handler (checked under SpecSW)     *)
(***************************************************************************)
\* C5: every background-message event, whatever its payload, makes exactly one
\* showNotification call, with the fixed title, body and icon.
C5_FixedNotification ==
    /\ Len(notifications) = Len(swLog)
    /\ \A i \in DOMAIN notifications :
          notifications[i] = [title |-> "Background Message Title",
                              body  |-> "Background Message body.",
                              icon  |-> "/logo192.png"]

C5_Witness ==
    /\ Len(swLog) = 2
    /\ swLog[1] = {}
    /\ swLog[2] = PayloadFields
    /\ Len(notifications) = 2

(***************************************************************************)
(* Properties of the server (checked under SpecServer)                     *)
(***************************************************************************)
IsEntryDocument(r) == r = [status |-> 200, type |-> "file", segs |-> <<"index.html">>]

\* C7 as stated: every GET for a path other than /ping is answered with
\* build/index.html.
C7_Original ==
    \A i \in DOMAIN responses :
        responses[i].path # PingPath => IsEntryDocument(responses[i].response)

\* C7 amended: GET / is answered with build/index.html when the build has it, and
\* no path but / and /index.html ever is; a GET for another path that names no
\* file or directory of the build and does not match the /ping route, such as
\* /some/route, gets 404.
C7_EntryDocumentOnlyAtRoot ==
    \A i \in DOMAIN responses :
        LET q == responses[i] IN
        /\ IsEntryDocument(q.response) =>
              q.path.segs \in {<<>>, <<"index.html">>}
        /\ (q.path.segs = <<>> /\ <<"index.html">> \in q.build) =>
              IsEntryDocument(q.response)
        /\ ( /\ q.path.segs # <<>>
              /\ ~(Len(q.path.segs) = 1 /\ Lower(q.path.segs[1]) = "ping")
              /\ q.path.segs \notin q.build
              /\ ~IsDir(q.build, q.path.segs) ) => q.response.status = 404

C7_Witness ==
    \E i \in DOMAIN responses : \E j \in DOMAIN responses :
        /\ responses[i].path.segs = <<"some", "route">>
        /\ <<"index.html">> \in responses[i].build
        /\ responses[j].path = RootPath
        /\ IsEntryDocument(responses[j].response)

\* C8: GET /ping always returns status 200 with exactly the body "pong",
\* whatever came before and whatever the build directory contains.
C8_PingAlwaysPong ==
    \A i \in DOMAIN responses :
        responses[i].path = PingPath =>
            responses[i].response = [status |-> 200, type |-> "text", segs |-> <<"pong">>]

====
